---- MODULE Spec2Model ----
(***************************************************************************)
(* Mini net stack (Client <-> NetworkLink <-> Server): header codec,       *)
(* segmentation / reassembly, the simulated link and the two endpoints.    *)
(* Byte buffers are sequences of 0..255; JS index k is TLA+ index k+1.     *)
(***************************************************************************)
EXTENDS Integers, Sequences, FiniteSets, TLC

VARIABLES
  call, result,      \* codec: the call being made and what it returned so far
  links,             \* NetworkLink objects: configuration and rx
  timers,            \* pending setTimeout callbacks
  now,               \* the event loop's clock, in microseconds
  nextTid,           \* setTimeout ids, in creation order
  server, client,    \* the two endpoints
  wiring,            \* which construction sequence built the endpoints
  sent,              \* history: every NetworkLink.send call and its outcome
  delivered,         \* history: every receiver invocation
  lastCall           \* the last API call and how it returned

codecVars == <<call, result>>

netVars == <<links, timers, now, nextTid, server, client, wiring, sent, delivered, lastCall>>

vars == <<call, result, links, timers, now, nextTid, server, client, wiring, sent,
          delivered, lastCall>>

(***************************************************************************)
(* Bounds of the codec inputs                                              *)
(***************************************************************************)
MaxLen == 4
MaxMss == 3
MaxPayloadLen == 2
MaxOptionsLen == 44
MaxLinkSends == 2
MaxClientSends == 1
MaxArrivals == 2

(***************************************************************************)
(* Integer helpers (JS 32-bit bitwise operators on non-negative operands)  *)
(***************************************************************************)
Min(a, b) == IF a < b THEN a ELSE b

Max(a, b) == IF a > b THEN a ELSE b

\* Math.ceil(a/b) for a >= 0, b > 0
Ceil(a, b) == (a + b - 1) \div b

RECURSIVE Pow2(_)
Pow2(n) == IF n = 0 THEN 1 ELSE 2 * Pow2(n - 1)

RECURSIVE BitAnd(_, _)
BitAnd(a, b) ==
  IF a = 0 \/ b = 0 THEN 0
  ELSE ((a % 2) * (b % 2)) + 2 * BitAnd(a \div 2, b \div 2)

RECURSIVE BitOr(_, _)
BitOr(a, b) ==
  IF a = 0 THEN b
  ELSE IF b = 0 THEN a
  ELSE Max(a % 2, b % 2) + 2 * BitOr(a \div 2, b \div 2)

\* a << n and a >>> n; every operand and result here stays below 2^31
Shl(a, n) == a * Pow2(n)

Shr(a, n) == a \div Pow2(n)

\* A number that needs 32 bits or more is held as 16-bit halves:
\* [hi, lo] stands for hi * 2^16 + lo, with lo in 0..65535
Wide(n) == [hi |-> n \div 65536, lo |-> n % 65536]

\* x >>> 0 (ToUint32)
Uint32(x) == [hi |-> x.hi % 65536, lo |-> x.lo]

\* x + n for a small non-negative n
WideAdd(x, n) == [hi |-> x.hi + ((x.lo + n) \div 65536), lo |-> (x.lo + n) % 65536]

\* (x >>> (24 - 8*i)) & 0xFF for a Uint32 x, i in 0..3
WideByte(x, i) ==
  IF i = 0 THEN Shr(x.hi, 8) % 256
  ELSE IF i = 1 THEN x.hi % 256
  ELSE IF i = 2 THEN Shr(x.lo, 8) % 256
  ELSE x.lo % 256

\* b[k] of a Uint8Array read in a bitwise expression: a missing element is
\* undefined, which the bitwise operators take as 0
At(b, k) == IF k >= 0 /\ k < Len(b) THEN b[k + 1] ELSE 0

\* Uint8Array.prototype.slice(start, end): end is clamped to the length
Slice(b, start, end) ==
  LET s == Min(start, Len(b))
      e == Min(end, Len(b))
  IN  IF e <= s THEN <<>> ELSE SubSeq(b, s + 1, e)

\* bytes.slice(start)
SliceFrom(b, start) == Slice(b, start, Len(b))

\* cat(a, b)
cat(a, b) == a \o b

\* concat(arr): the chunks copied one after another, in array order
RECURSIVE concat(_)
concat(arr) == IF arr = <<>> THEN <<>> ELSE Head(arr) \o concat(Tail(arr))

(***************************************************************************)
(* segment(bytes, mss): for (i = 0; i < bytes.length; i += mss)            *)
(*                        out.push(bytes.slice(i, i + mss))                *)
(***************************************************************************)
RECURSIVE segmentLoop(_, _, _, _)
segmentLoop(bytes, mss, i, out) ==
  IF i < Len(bytes)
  THEN segmentLoop(bytes, mss, i + mss, Append(out, Slice(bytes, i, i + mss)))
  ELSE out

\* the loop with the tail test written as i + mss <= length (drops a short
\* last slice)
segmentDropsTail(bytes, mss) ==
  LET RECURSIVE loop(_, _)
      loop(i, out) ==
        IF i + mss <= Len(bytes)
        THEN loop(i + mss, Append(out, Slice(bytes, i, i + mss)))
        ELSE out
  IN  loop(0, <<>>)

segment(bytes, mss) == segmentLoop(bytes, mss, 0, <<>>)

(***************************************************************************)
(* Text helpers: strings are sequences of one-character strings            *)
(***************************************************************************)
Digits == <<"0", "1", "2", "3", "4", "5", "6", "7", "8", "9">>

HexDigits == Digits \o <<"A", "B", "C", "D", "E", "F">>

DigitVal == [c \in {Digits[i] : i \in 1..10} |-> CHOOSE i \in 0..9 : Digits[i + 1] = c]

\* String(n) of a non-negative integer, as a template literal renders it
RECURSIVE DecStr(_)
DecStr(n) ==
  IF n < 10 THEN <<Digits[n + 1]>> ELSE DecStr(n \div 10) \o <<Digits[(n % 10) + 1]>>

\* what `${b[k]}` renders: the element in decimal, or "undefined" past the end
Undefined == <<"u", "n", "d", "e", "f", "i", "n", "e", "d">>

StrAt(b, k) == IF k >= 0 /\ k < Len(b) THEN DecStr(b[k + 1]) ELSE Undefined

\* n.toString(16).toUpperCase()
RECURSIVE HexStr(_)
HexStr(n) ==
  IF n < 16 THEN <<HexDigits[n + 1]>>
  ELSE HexStr(n \div 16) \o <<HexDigits[(n % 16) + 1]>>

\* s.padStart(w, '0')
RECURSIVE padStart(_, _)
padStart(s, w) == IF Len(s) >= w THEN s ELSE padStart(<<"0">> \o s, w)

\* hex(n, w) = '0x' + (n>>>0).toString(16).toUpperCase().padStart(w, '0')
hex(n, w) == <<"0", "x">> \o padStart(HexStr(n), w)

\* Number(n) of one dotted component: the empty string is 0, a run of decimal
\* digits is its value, anything else is NaN (here: -1)
IsDigits(s) == \A i \in 1..Len(s) : s[i] \in DOMAIN DigitVal

RECURSIVE DecVal(_)
DecVal(s) ==
  IF s = <<>> THEN 0 ELSE 10 * DecVal(SubSeq(s, 1, Len(s) - 1)) + DigitVal[s[Len(s)]]

Number(s) == IF IsDigits(s) THEN DecVal(s) ELSE 0 - 1

\* ipToBytes(ip) = ip.split('.').map(n => Number(n) & 255); an address is held
\* already split at the dots; NaN & 255 is 0
ipToBytes(ip) ==
  [i \in 1..Len(ip) |-> IF Number(ip[i]) < 0 THEN 0 ELSE BitAnd(Number(ip[i]), 255)]

(***************************************************************************)
(* ipChecksum(bytes): 16-bit one's complement sum, folded after every word *)
(***************************************************************************)
\* (the accumulator is compared before each step only so that it is evaluated
\* step by step rather than as one nested expression)
RECURSIVE checksumLoop(_, _, _)
checksumLoop(bytes, i, sum) ==
  IF i < Len(bytes) /\ sum >= 0
  THEN LET word == BitOr(Shl(At(bytes, i), 8), At(bytes, i + 1))
           s1   == sum + word
       IN  checksumLoop(bytes, i + 2, BitAnd(s1, 65535) + Shr(s1, 16))
  ELSE sum

\* the loop without the end-around carry: sum = (sum + word) & 0xFFFF
ipChecksumNoCarry(bytes) ==
  LET RECURSIVE loop(_, _)
      loop(i, sum) ==
        IF i < Len(bytes) /\ sum >= 0
        THEN loop(i + 2, BitAnd(sum + BitOr(Shl(At(bytes, i), 8), At(bytes, i + 1)), 65535))
        ELSE sum
  IN  65535 - BitAnd(loop(0, 0), 65535)

\* return (~sum) & 0xFFFF
ipChecksum(bytes) == 65535 - BitAnd(checksumLoop(bytes, 0, 0), 65535)

(***************************************************************************)
(* IPv4Header                                                              *)
(***************************************************************************)
\* new IPv4Header(f): the constructor masks the fields to their widths
IPv4Header(f) ==
  [ version      |-> 4,
    ihl          |-> 5 + Ceil(Len(f.optionsBytes), 4),
    dscp         |-> BitAnd(f.dscp, 63),
    ecn          |-> BitAnd(f.ecn, 3),
    totalLength  |-> 0,
    id           |-> BitAnd(f.id, 65535),
    df           |-> f.df,
    mf           |-> f.mf,
    fragOffset   |-> BitAnd(f.fragOffset, 8191),
    ttl          |-> BitAnd(f.ttl, 255),
    protocol     |-> BitAnd(f.protocol, 255),
    headerChecksum |-> 0,
    src          |-> f.src,
    dst          |-> f.dst,
    optionsBytes |-> f.optionsBytes ]

\* a write of v into a Uint8Array element keeps v modulo 256
U8(v) == v % 256

\* the header bytes before the checksum is inserted (bytes 10 and 11 zero)
IPv4PackZeroSum(h, payload) ==
  LET hdrLen    == h.ihl * 4
      total     == hdrLen + Len(payload)
      flags     == BitAnd(BitOr(BitOr(Shl(0, 2), Shl(IF h.df THEN 1 ELSE 0, 1)),
                                IF h.mf THEN 1 ELSE 0), 7)
      fragField == BitAnd(BitOr(Shl(flags, 13), h.fragOffset), 65535)
      s == ipToBytes(h.src)
      d == ipToBytes(h.dst)
      fixed == << BitOr(Shl(4, 4), BitAnd(h.ihl, 15)),
                  BitOr(Shl(h.dscp, 2), h.ecn),
                  BitAnd(Shr(total, 8), 255), BitAnd(total, 255),
                  BitAnd(Shr(h.id, 8), 255), BitAnd(h.id, 255),
                  BitAnd(Shr(fragField, 8), 255), BitAnd(fragField, 255),
                  h.ttl, h.protocol,
                  0, 0,
                  At(s, 0), At(s, 1), At(s, 2), At(s, 3),
                  At(d, 0), At(d, 1), At(d, 2), At(d, 3) >>
  IN  [k \in 1..hdrLen |->
         IF k <= 20 THEN U8(fixed[k])
         ELSE IF h.ihl > 5 /\ k - 20 <= Len(h.optionsBytes) THEN h.optionsBytes[k - 20]
         ELSE 0]

\* IPv4Header.pack(payload)
IPv4Pack(h, payload) ==
  LET b   == IPv4PackZeroSum(h, payload)
      sum == ipChecksum(b)
  IN  [b EXCEPT ![11] = BitAnd(Shr(sum, 8), 255), ![12] = BitAnd(sum, 255)]

\* b[k] read as a plain value: undefined (here: -1) past the end
undefined == 0 - 1

RawAt(b, k) == IF k >= 0 /\ k < Len(b) THEN b[k + 1] ELSE undefined

\* IPv4Header.parse(b)
IPv4Parse(b) ==
  LET flagsFrag == BitOr(Shl(At(b, 6), 8), At(b, 7))
  IN  [ ver         |-> Shr(At(b, 0), 4),
        ihl         |-> BitAnd(At(b, 0), 15),
        dscp        |-> Shr(At(b, 1), 2),
        ecn         |-> BitAnd(At(b, 1), 3),
        totalLength |-> BitOr(Shl(At(b, 2), 8), At(b, 3)),
        id          |-> BitOr(Shl(At(b, 4), 8), At(b, 5)),
        df          |-> BitAnd(Shr(flagsFrag, 14), 1) # 0,
        mf          |-> BitAnd(Shr(flagsFrag, 13), 1) # 0,
        fragOffset  |-> BitAnd(flagsFrag, 8191),
        ttl         |-> RawAt(b, 8),
        proto       |-> RawAt(b, 9),
        src         |-> <<StrAt(b, 12), StrAt(b, 13), StrAt(b, 14), StrAt(b, 15)>>,
        dst         |-> <<StrAt(b, 16), StrAt(b, 17), StrAt(b, 18), StrAt(b, 19)>> ]

(***************************************************************************)
(* TCPHeader                                                               *)
(***************************************************************************)
FlagNames == {"ns", "cwr", "ecn", "urg", "ack", "psh", "rst", "syn", "fin"}

\* a flags object; a key the caller leaves out reads as undefined (falsy): 0
Flags(set) == [n \in FlagNames |-> IF n \in set THEN 1 ELSE 0]

\* new TCPHeader(f)
TCPHeader(f) ==
  [ srcPort         |-> f.srcPort,
    dstPort         |-> f.dstPort,
    seq             |-> Uint32(f.seq),
    ack             |-> Uint32(f.ack),
    dataOffsetWords |-> f.dataOffsetWords + Ceil(Len(f.optionsBytes), 4),
    flags           |-> f.flags,
    windowSize      |-> BitAnd(f.windowSize, 65535),
    checksum        |-> 0,
    urgentPtr       |-> BitAnd(f.urgentPtr, 65535),
    optionsBytes    |-> f.optionsBytes ]

\* byte 13 with ack and psh on each other's bit
TCPFlagsByteSwapped(f) ==
  BitOr(Shl(f.ns, 7), BitOr(Shl(f.cwr, 7), BitOr(Shl(f.ecn, 6), BitOr(Shl(f.urg, 5),
  BitOr(Shl(f.psh, 4), BitOr(Shl(f.ack, 3), BitOr(Shl(f.rst, 2),
  BitOr(Shl(f.syn, 1), Shl(f.fin, 0)))))))))

\* byte 13 as pack composes it (ns and cwr are both shifted by 7)
TCPFlagsByte(f) ==
  BitOr(Shl(f.ns, 7), BitOr(Shl(f.cwr, 7), BitOr(Shl(f.ecn, 6), BitOr(Shl(f.urg, 5),
  BitOr(Shl(f.ack, 4), BitOr(Shl(f.psh, 3), BitOr(Shl(f.rst, 2),
  BitOr(Shl(f.syn, 1), Shl(f.fin, 0)))))))))

\* TCPHeader.pack(payload)
TCPPack(h, payload) ==
  LET hdrBytes == h.dataOffsetWords * 4
      fixed == << BitAnd(Shr(h.srcPort, 8), 255), BitAnd(h.srcPort, 255),
                  BitAnd(Shr(h.dstPort, 8), 255), BitAnd(h.dstPort, 255),
                  WideByte(h.seq, 0), WideByte(h.seq, 1),
                  WideByte(h.seq, 2), WideByte(h.seq, 3),
                  WideByte(h.ack, 0), WideByte(h.ack, 1),
                  WideByte(h.ack, 2), WideByte(h.ack, 3),
                  BitAnd(Shl(h.dataOffsetWords, 4), 240),
                  TCPFlagsByte(h.flags),
                  BitAnd(Shr(h.windowSize, 8), 255), BitAnd(h.windowSize, 255),
                  0, 0,
                  BitAnd(Shr(h.urgentPtr, 8), 255), BitAnd(h.urgentPtr, 255) >>
  IN  [k \in 1..hdrBytes |->
         IF k <= 20 THEN U8(fixed[k])
         ELSE IF h.dataOffsetWords > 5 /\ k - 20 <= Len(h.optionsBytes)
              THEN h.optionsBytes[k - 20]
         ELSE 0]

\* TCPHeader.parse(b)
TCPParse(b) ==
  LET dataOffsetWords == BitAnd(Shr(At(b, 12), 4), 15)
      flags == At(b, 13)
  IN  [ srcPort         |-> BitOr(Shl(At(b, 0), 8), At(b, 1)),
        dstPort         |-> BitOr(Shl(At(b, 2), 8), At(b, 3)),
        dataOffsetBytes |-> dataOffsetWords * 4,
        flagsHex        |-> hex(flags, 2),
        windowSize      |-> BitOr(Shl(At(b, 14), 8), At(b, 15)) ]

\* onFrame's first lines, the same in both endpoints: the payload is what
\* follows the two headers at the offsets the headers declare
ParseFrame(bytes) ==
  LET ip       == IPv4Parse(bytes)
      ipHdrLen == ip.ihl * 4
      tcpBytes == SliceFrom(bytes, ipHdrLen)
      tcp      == TCPParse(tcpBytes)
  IN  [ip |-> ip, tcp |-> tcp, payload |-> SliceFrom(tcpBytes, tcp.dataOffsetBytes)]

\* the senders' pipeline for one chunk with the two headers' fields given:
\* transport header packed first, then the network header over the packet
PackFrame(ipFields, tcpFields, pl) ==
  LET tcpHdr    == TCPPack(TCPHeader(tcpFields), pl)
      tcpPacket == cat(tcpHdr, pl)
      ipHdr     == IPv4Pack(IPv4Header(ipFields), tcpPacket)
  IN  [tcpHdr |-> tcpHdr, bytes |-> cat(ipHdr, tcpPacket)]

(***************************************************************************)
(* Codec calls: one call per behaviour, its arguments drawn in InitCodec   *)
(***************************************************************************)
Seqs(S, n) == UNION {[1..k -> S] : k \in 0..n}

\* option bytes of length L (no byte is zero, none repeats within a word)
Options(L) == [i \in 1..L |-> 1 + ((7 * i) % 255)]

OptionLens == {0, 1, 4, 5, 40, 41, MaxOptionsLen}

Payloads == {[i \in 1..n |-> 97] : n \in 0..MaxPayloadLen}

Addr(a, b, c, d) == <<DecStr(a), DecStr(b), DecStr(c), DecStr(d)>>

WellFormedAddr(ip) ==
  /\ Len(ip) = 4
  /\ \A i \in 1..4 : ip[i] # <<>> /\ Number(ip[i]) >= 0 /\ Number(ip[i]) <= 255

Addrs ==
  { Addr(10, 0, 0, 2), Addr(104, 18, 32, 47), Addr(255, 255, 255, 255),
    <<DecStr(1), DecStr(2), DecStr(3)>>,
    Addr(300, 1, 1, 1),
    <<<<"a">>, DecStr(0), DecStr(0), DecStr(1)>> }

IPv4Defaults ==
  [ src |-> Addr(10, 0, 0, 2), dst |-> Addr(104, 18, 32, 47), dscp |-> 0, ecn |-> 0,
    id |-> 4096, df |-> TRUE, mf |-> FALSE, fragOffset |-> 0, ttl |-> 64,
    protocol |-> 6, optionsBytes |-> <<>> ]

IPv4FieldSets ==
  { [IPv4Defaults EXCEPT !.dscp = ds, !.ecn = e, !.id = i, !.df = d, !.mf = m,
                         !.fragOffset = fo, !.ttl = t, !.protocol = pr] :
      ds \in {0, 46}, e \in {0, 3}, i \in {4096, 65535}, d \in BOOLEAN, m \in BOOLEAN,
      fo \in {0, 8191}, t \in {64, 255}, pr \in {6, 17} }
  \cup
  { [IPv4Defaults EXCEPT !.src = s, !.dst = d, !.optionsBytes = Options(L), !.id = i] :
      s \in Addrs, d \in {Addr(104, 18, 32, 47), Addr(255, 255, 255, 255)},
      L \in OptionLens, i \in {40960, 65535} }

TCPDefaults ==
  [ srcPort |-> 53000, dstPort |-> 443, seq |-> Wide(1), ack |-> Wide(1),
    dataOffsetWords |-> 5,
    flags |-> Flags({"ack", "psh"}), windowSize |-> 65535, urgentPtr |-> 0,
    optionsBytes |-> <<>> ]

TCPFieldSets ==
  { [TCPDefaults EXCEPT !.flags = Flags(fs)] : fs \in SUBSET FlagNames }
  \cup
  { [TCPDefaults EXCEPT !.srcPort = sp, !.dstPort = dp, !.seq = sq, !.ack = ak,
                        !.windowSize = w, !.optionsBytes = Options(L)] :
      sp \in {0, 53000, 65535}, dp \in {443, 65535},
      sq \in {Wide(1), Wide(20000), [hi |-> 65535, lo |-> 65535], [hi |-> 65536, lo |-> 5]},
      ak \in {Wide(1), Wide(10000)},
      w \in {0, 65535}, L \in {0, 3, 4} }

NoResult == [stage |-> "init"]

NoCall == [op |-> "none", outcome |-> "none"]

\* the network part before anything is constructed
NetIdle ==
  /\ links = <<>> /\ timers = {} /\ now = 0 /\ nextTid = 0
  /\ server = <<>> /\ client = <<>> /\ wiring = "none"
  /\ sent = <<>> /\ delivered = <<>> /\ lastCall = NoCall

InitCodec ==
  /\ NetIdle
  /\ result = NoResult
  /\ \/ \E P \in Seqs({13, 97}, MaxLen), M \in 1..MaxMss :
          call = [op |-> "segment", bytes |-> P, mss |-> M]
     \/ \E f \in IPv4FieldSets, pl \in Payloads :
          call = [op |-> "ipv4", fields |-> f, payload |-> pl]
     \/ \E f \in TCPFieldSets, pl \in Payloads :
          call = [op |-> "tcp", fields |-> f, payload |-> pl]
     \/ \E ipL \in OptionLens, tcpL \in OptionLens, pl \in Payloads :
          call = [op |-> "frame", payload |-> pl,
                  ipFields  |-> [IPv4Defaults EXCEPT !.optionsBytes = Options(ipL)],
                  tcpFields |-> [TCPDefaults EXCEPT !.optionsBytes = Options(tcpL)]]

\* segment(bytes, mss)
DoSegment ==
  /\ call.op = "segment" /\ result.stage = "init"
  /\ result' = [stage |-> "segmented", out |-> segment(call.bytes, call.mss)]
  /\ UNCHANGED <<call, netVars>>

\* new IPv4Header(fields).pack(payload); neither the constructor nor pack has a
\* throw statement, so the call returns the bytes and raises no error
DoIPv4Pack ==
  /\ call.op = "ipv4" /\ result.stage = "init"
  /\ LET h == IPv4Header(call.fields)
     IN  result' = [stage |-> "packed", hdr |-> h, bytes |-> IPv4Pack(h, call.payload),
                    error |-> "none"]
  /\ UNCHANGED <<call, netVars>>

\* IPv4Header.parse(bytes) of the packed header
DoIPv4Parse ==
  /\ call.op = "ipv4" /\ result.stage = "packed"
  /\ result' = [result EXCEPT !.stage = "parsed"] @@ [parsed |-> IPv4Parse(result.bytes)]
  /\ UNCHANGED <<call, netVars>>

\* new TCPHeader(fields).pack(payload)
DoTCPPack ==
  /\ call.op = "tcp" /\ result.stage = "init"
  /\ LET h == TCPHeader(call.fields)
     IN  result' = [stage |-> "packed", hdr |-> h, bytes |-> TCPPack(h, call.payload)]
  /\ UNCHANGED <<call, netVars>>

\* TCPHeader.parse(bytes) of the packed header
DoTCPParse ==
  /\ call.op = "tcp" /\ result.stage = "packed"
  /\ result' = [result EXCEPT !.stage = "parsed"] @@ [parsed |-> TCPParse(result.bytes)]
  /\ UNCHANGED <<call, netVars>>

\* one chunk wrapped as the senders wrap it
DoPackFrame ==
  /\ call.op = "frame" /\ result.stage = "init"
  /\ LET f == PackFrame(call.ipFields, call.tcpFields, call.payload)
     IN  result' = [stage |-> "packed", tcpHdr |-> f.tcpHdr, bytes |-> f.bytes]
  /\ UNCHANGED <<call, netVars>>

\* the frame read as onFrame reads it
DoParseFrame ==
  /\ call.op = "frame" /\ result.stage = "packed"
  /\ result' = [result EXCEPT !.stage = "parsed"] @@ [parsed |-> ParseFrame(result.bytes)]
  /\ UNCHANGED <<call, netVars>>

NextCodec ==
  \/ DoSegment \/ DoIPv4Pack \/ DoIPv4Parse \/ DoTCPPack \/ DoTCPParse
  \/ DoPackFrame \/ DoParseFrame

SpecCodec == InitCodec /\ [][NextCodec]_vars

(***************************************************************************)
(* Properties of the codec (checked under SpecCodec)                       *)
(***************************************************************************)
IsSegmented == call.op = "segment" /\ result.stage = "segmented"

IsIPv4Packed == call.op = "ipv4" /\ result.stage \in {"packed", "parsed"}

IsIPv4Parsed == call.op = "ipv4" /\ result.stage = "parsed"

IsTCPParsed == call.op = "tcp" /\ result.stage = "parsed"

\* C1: segment(P, M) returns exactly ceil(|P|/M) slices (none for an empty P),
\* slice i is P[i*M .. min(|P|, (i+1)*M)), the slices concatenated in order
\* give P back, and every slice but the last has length exactly M.
C1_SegmentSlices ==
  IsSegmented =>
    LET P   == call.bytes
        M   == call.mss
        out == result.out
    IN  /\ Len(out) = Ceil(Len(P), M)
        /\ \A i \in 0..(Len(out) - 1) :
             /\ Len(out[i + 1]) = Min(Len(P), (i + 1) * M) - i * M
             /\ \A k \in 1..Len(out[i + 1]) : out[i + 1][k] = P[i * M + k]
             /\ (i < Len(out) - 1 => Len(out[i + 1]) = M)
        /\ concat(out) = P

\* C1 witness: a payload split into several slices, the last one short
C1_Witness ==
  /\ IsSegmented
  /\ Len(result.out) >= 2
  /\ Len(result.out[Len(result.out)]) < call.mss

\* C5: parse(pack(fields)) reproduces every encoded field of the network
\* header, the option bytes included.
C5_IPv4RoundTrip ==
  IsIPv4Parsed =>
    LET h == result.hdr
        p == result.parsed
    IN  /\ p.ver = h.version
        /\ p.ihl = h.ihl
        /\ p.dscp = h.dscp /\ p.ecn = h.ecn
        /\ p.totalLength = 4 * h.ihl + Len(call.payload)
        /\ p.id = h.id
        /\ p.df = h.df /\ p.mf = h.mf /\ p.fragOffset = h.fragOffset
        /\ p.ttl = h.ttl /\ p.proto = h.protocol
        /\ p.src = h.src /\ p.dst = h.dst
        /\ "optionsBytes" \in DOMAIN p /\ p["optionsBytes"] = h.optionsBytes

\* the value of a "0xNN" string
HexVal(sx) ==
  LET d(c) == CHOOSE v \in 0..15 : HexDigits[v + 1] = c
  IN  16 * d(sx[3]) + d(sx[4])

\* bit n of v
Bit(v, n) == (v \div Pow2(n)) % 2

\* C6: parse(pack(fields)) reproduces source port, destination port, sequence
\* number, acknowledgment number, each control flag and the window size.
C6_TCPRoundTrip ==
  IsTCPParsed =>
    LET h == result.hdr
        p == result.parsed
        v == HexVal(p.flagsHex)
    IN  /\ p.srcPort = h.srcPort /\ p.dstPort = h.dstPort
        /\ p.windowSize = h.windowSize
        /\ "seq" \in DOMAIN p /\ p["seq"] = h.seq
        /\ "ack" \in DOMAIN p /\ p["ack"] = h.ack
        /\ Bit(v, 0) = h.flags.fin /\ Bit(v, 1) = h.flags.syn /\ Bit(v, 2) = h.flags.rst
        /\ Bit(v, 3) = h.flags.psh /\ Bit(v, 4) = h.flags.ack /\ Bit(v, 5) = h.flags.urg
        /\ Bit(v, 6) = h.flags.ecn /\ Bit(v, 7) = h.flags.cwr
        /\ \E n \in 0..7 : Bit(v, n) = h.flags.ns /\ (n = 7 => h.flags.cwr = 0)

\* the reference checksum: add up all 16-bit big-endian words, then fold the
\* carries back in until none remains, then complement
WordSum(bytes) ==
  LET RECURSIVE sumTo(_)
      sumTo(n) == IF n = 0 THEN 0
                  ELSE sumTo(n - 1) + (256 * bytes[2 * n - 1] + bytes[2 * n])
  IN  sumTo(Len(bytes) \div 2)

RECURSIVE FoldCarries(_)
FoldCarries(x) == IF x > 65535 THEN FoldCarries((x % 65536) + (x \div 65536)) ELSE x

RefChecksum(bytes) == 65535 - FoldCarries(WordSum(bytes))

ChecksumZeroed(b) == [b EXCEPT ![11] = 0, ![12] = 0]

\* C7: the 16-bit value stored in bytes 10-11 of every packed network header
\* is the one's complement of the fully folded sum of the header's 16-bit
\* words taken with the checksum field zeroed.
C7_ChecksumMatchesReference ==
  IsIPv4Packed =>
    256 * result.bytes[11] + result.bytes[12] = RefChecksum(ChecksumZeroed(result.bytes))

\* C7 witness: a packed header with options whose word sum carries out of 16
\* bits more than once
C7_Witness ==
  /\ IsIPv4Packed
  /\ Len(result.bytes) > 20
  /\ WordSum(ChecksumZeroed(result.bytes)) > 2 * 65536

\* C8: the packed header encodes ihl = 5 + ceil(L/4) and total length
\* 4*(5 + ceil(L/4)) + N, and is 4*(5 + ceil(L/4)) bytes long, for every
\* option length L and payload length N.
C8_HeaderLengths ==
  IsIPv4Packed =>
    LET L == Len(call.fields.optionsBytes)
        N == Len(call.payload)
        b == result.bytes
    IN  /\ b[1] % 16 = 5 + Ceil(L, 4)
        /\ 256 * b[3] + b[4] = 4 * (5 + Ceil(L, 4)) + N
        /\ Len(b) = 4 * (5 + Ceil(L, 4))

\* C9: encoding fails with InvalidField, producing no bytes, when there are
\* more than 40 option bytes or an address is malformed.
C9_InvalidFieldRejected ==
  ( /\ IsIPv4Packed
    /\ \/ Len(call.fields.optionsBytes) > 40
       \/ ~WellFormedAddr(call.fields.src)
       \/ ~WellFormedAddr(call.fields.dst) )
  => (result.error = "InvalidField" /\ result.bytes = <<>>)

(***************************************************************************)
(* NetworkLink.  Times are in microseconds (the code's milliseconds times  *)
(* 1000), rates in kbit/s (rateGbps times 10^6), loss rates in percent.    *)
(***************************************************************************)
LinkIds == {"c2s", "s2c"}

ACCEPTED_MEDIA ==
  {"twisted-pair", "fiber", "coax", "wireless", "arcnet", "token-ring", "localtalk"}

\* mediaDB[medium].v in metres per microsecond; (mediaDB[medium]?.v) ?? 2.00e8
MediaVelocity(medium) ==
  IF medium = "fiber" THEN 205 ELSE IF medium = "wireless" THEN 300 ELSE 200

\* mediaDB[medium].legacyGbps in kbit/s
LegacyRate(medium) ==
  IF medium = "arcnet" THEN 10000 ELSE IF medium = "token-ring" THEN 16000 ELSE 2900

\* the constructor's defaults
LinkDefaults ==
  [ medium |-> "twisted-pair", rateKbps |-> 1000000, distanceMeters |-> 10,
    fullDuplex |-> TRUE, baseLatencyUs |-> 50, jitterUs |-> 20, lossRate |-> 0,
    rx |-> "none" ]

\* new NetworkLink(opts): a legacy medium left at the default rate gets its
\* legacy rate
NetworkLink(opts) ==
  IF opts.medium \in {"arcnet", "token-ring", "localtalk"} /\ opts.rateKbps = 1000000
  THEN [opts EXCEPT !.rateKbps = LegacyRate(opts.medium)]
  ELSE opts

\* what the caller passes to connect: the endpoints' onFrame closures, two
\* other functions, or something that is not a function
Receivers == {"server", "client", "A", "B"}

\* connect's checks, in order, without the rate check
ConnectOutcomeNoRateCheck(link, receiver) ==
  IF receiver \notin Receivers THEN "TypeError"
  ELSE IF link.medium = "" THEN "Error"
  ELSE IF link.medium \notin ACCEPTED_MEDIA THEN "Error"
  ELSE "ok"

\* connect's checks, in order: "ok", or the exception thrown
ConnectOutcome(link, receiver) ==
  IF receiver \notin Receivers THEN "TypeError"
  ELSE IF link.medium = "" THEN "Error"
  ELSE IF link.medium \notin ACCEPTED_MEDIA THEN "Error"
  ELSE IF link.rateKbps <= 0 THEN "Error"
  ELSE "ok"

\* connect clearing the receiver when a check throws
connectClearsOnFailure(link, receiver) ==
  IF ConnectOutcome(link, receiver) = "ok" THEN [link EXCEPT !.rx = receiver]
  ELSE [link EXCEPT !.rx = "none"]

\* link.connect(receiver): this.rx is assigned only when no check throws
connect(link, receiver) ==
  IF ConnectOutcome(link, receiver) = "ok" THEN [link EXCEPT !.rx = receiver] ELSE link

\* Math.random() in percent, for the loss roll: values of [0, 1)
Rolls == {0, 50, 99}

\* the roll compared with <= instead of <
IsLostInclusive(roll, lossRate) == roll <= lossRate

\* Math.random() < this.lossRate
IsLost(roll, lossRate) == roll < lossRate

\* (Math.random() * 2 * jitterMs) - jitterMs: values of [-jitter, +jitter)
JitterSamples(jitterUs) == IF jitterUs > 0 THEN {0 - jitterUs, 0, jitterUs - 1} ELSE {0}

\* (!fullDuplex) ? Math.random() * 0.2 : 0
DuplexPenalties(fullDuplex) == IF fullDuplex THEN {0} ELSE {0, 199}

\* txDelay of a frame of n bytes.  A rate of 0 makes the serialization time
\* infinite, which setTimeout takes as its minimum delay.
TxDelay(link, n, jitter, penalty) ==
  LET bits == n * 8
      tSerialization == IF link.rateKbps > 0
                        THEN (bits * 1000) \div link.rateKbps
                        ELSE 0 - ((bits * 1000) \div (0 - link.rateKbps))
      tPropagation   == link.distanceMeters \div MediaVelocity(link.medium)
      totalDelay == Max(0, link.baseLatencyUs + tSerialization + tPropagation + jitter)
  IN  IF link.rateKbps = 0 THEN 1000 ELSE totalDelay + penalty

NoLink == "-"

Timer(id, at, kind, owner, link, frame) ==
  [id |-> id, at |-> at, kind |-> kind, owner |-> owner, link |-> link, frame |-> frame]

\* the timers run in the order they were registered, whatever their delay
EarliestRegistered(ts) ==
  CHOOSE t \in ts : \A u \in ts : t.id <= u.id

\* the timer the event loop runs next: the earliest, the oldest among equals
Earliest(ts) ==
  CHOOSE t \in ts : \A u \in ts : t.at < u.at \/ (t.at = u.at /\ t.id <= u.id)

\* send scheduling a delivery whether or not a receiver is registered
LinkSendQueuesUnconnected(l, frame, rest) ==
  LET link == links[l]
      due  == now + TxDelay(link, Len(frame.bytes), 0, 0)
  IN  /\ timers' = rest \cup {Timer(nextTid, due, "deliver", "link", l, frame)}
      /\ nextTid' = nextTid + 1
      /\ sent' = Append(sent, [link |-> l, tag |-> frame.tag, bytes |-> frame.bytes,
                               outcome |-> IF link.rx = "none" THEN "noReceiver"
                                           ELSE "scheduled"])

\* send scheduling two delivery callbacks for one frame
LinkSendTwice(l, frame, rest) ==
  LET link == links[l]
      due  == now + TxDelay(link, Len(frame.bytes), 0, 0)
  IN  /\ timers' = rest \cup {Timer(nextTid, due, "deliver", "link", l, frame),
                             Timer(nextTid + 1, due, "deliver", "link", l, frame)}
      /\ nextTid' = nextTid + 2
      /\ sent' = Append(sent, [link |-> l, tag |-> frame.tag, bytes |-> frame.bytes,
                               outcome |-> IF link.rx = "none" THEN "noReceiver"
                                           ELSE "scheduled"])

\* link.send(frame) called at time `now`, the other timers being `rest`:
\* no receiver -> dropped; roll below the loss rate -> dropped; otherwise one
\* delivery callback is scheduled txDelay from now
LinkSend(l, frame, rest) ==
  LET link == links[l] IN
  IF link.rx = "none"
  THEN /\ timers' = rest
       /\ nextTid' = nextTid
       /\ sent' = Append(sent, [link |-> l, tag |-> frame.tag, bytes |-> frame.bytes, outcome |-> "noReceiver"])
  ELSE \E roll \in Rolls :
         IF IsLost(roll, link.lossRate)
         THEN /\ timers' = rest
              /\ nextTid' = nextTid
              /\ sent' = Append(sent, [link |-> l, tag |-> frame.tag, bytes |-> frame.bytes, outcome |-> "lost"])
         ELSE \E jitter \in JitterSamples(link.jitterUs),
                 penalty \in DuplexPenalties(link.fullDuplex) :
                LET due == now + TxDelay(link, Len(frame.bytes), jitter, penalty)
                IN  /\ timers' = rest \cup {Timer(nextTid, due, "deliver", "link", l, frame)}
                    /\ nextTid' = nextTid + 1
                    /\ sent' = Append(sent, [link |-> l, tag |-> frame.tag, bytes |-> frame.bytes,
                                             outcome |-> "scheduled"])

(***************************************************************************)
(* HTTP text.  Text is ASCII, one byte per character, so toBytes and        *)
(* safeDecode keep the sequence as it is; a character that is neither CR,  *)
(* LF, space nor colon is written as "x" (120).                            *)
(***************************************************************************)
CRLF == <<13, 10>>

Text(n) == [i \in 1..n |-> 120]

\* toBytes(s) = enc.encode(s)
toBytes(s) == s

\* safeDecode(bytes): dec.decode(bytes), '' if it throws (on ASCII it never does)
safeDecode(bytes) == bytes

\* text.includes(pat)
Includes(text, pat) ==
  \E i \in 0..(Len(text) - Len(pat)) : \A k \in 1..Len(pat) : text[i + k] = pat[k]

\* the index (from 0) of the first pat in text, Len(text) if there is none
IndexOf(text, pat) ==
  IF Includes(text, pat)
  THEN CHOOSE i \in 0..(Len(text) - Len(pat)) :
         /\ \A k \in 1..Len(pat) : text[i + k] = pat[k]
         /\ \A j \in 0..(i - 1) : \E k \in 1..Len(pat) : text[j + k] # pat[k]
  ELSE Len(text)

\* lines.join('\r\n')
RECURSIVE join(_, _)
join(lines, sep) ==
  IF lines = <<>> THEN <<>>
  ELSE IF Len(lines) = 1 THEN lines[1]
  ELSE lines[1] \o sep \o join(Tail(lines), sep)

\* `${k}: ${v}` with a key of klen characters
HeaderLine(klen, v) == Text(klen) \o <<58, 32>> \o v

\* h2ToHttp11(dev): request line, the ten headers, then two empty lines
h2ToHttp11(dev) ==
  join(<< dev.method \o <<32>> \o dev.path \o <<32>> \o Text(8),
          HeaderLine(4, dev.authority), HeaderLine(10, Text(10)),
          HeaderLine(6, dev.accept), HeaderLine(15, dev.acceptEncoding),
          HeaderLine(15, dev.acceptLanguage), HeaderLine(6, dev.origin),
          HeaderLine(7, dev.referer), HeaderLine(10, dev.userAgent),
          HeaderLine(12, dev.contentType), HeaderLine(14, dev.contentLength),
          <<>>, <<>> >>, CRLF)

\* parseHttpRequest(text): the request line of the head before the first
\* blank line, split at its first two spaces (the headers only feed the log)
parseHttpRequest(text) ==
  LET head  == Slice(text, 0, IndexOf(text, CRLF \o CRLF))
      line  == Slice(head, 0, IndexOf(head, CRLF))
      sp1   == IndexOf(line, <<32>>)
      rest1 == SliceFrom(line, sp1 + 1)
      sp2   == IndexOf(rest1, <<32>>)
      rest2 == SliceFrom(rest1, sp2 + 1)
  IN  [ method  |-> Slice(line, 0, sp1),
        path    |-> Slice(rest1, 0, sp2),
        version |-> Slice(rest2, 0, IndexOf(rest2, <<32>>)) ]

\* buildHttpResponse({status: 202, reason: 'Accepted', headers, body}) as
\* Server.onFrame calls it: status line, four headers, '', body, where body
\* is JSON.stringify({ok: true, ts: Date.now()}) (30 characters)
buildHttpResponse ==
  join(<< Text(8) \o <<32>> \o Text(3) \o <<32>> \o Text(8),
          HeaderLine(12, Text(16)), HeaderLine(14, Text(2)),
          HeaderLine(27, Text(1)), HeaderLine(25, Text(44)),
          <<>>, Text(30) >>, CRLF)

\* the demo's request (main): 418 bytes
DevMain ==
  [ method |-> Text(4), path |-> Text(27), authority |-> Text(14), accept |-> Text(3),
    acceptEncoding |-> Text(23), acceptLanguage |-> Text(14), origin |-> Text(19),
    referer |-> Text(20), userAgent |-> Text(111), contentType |-> Text(16),
    contentLength |-> Text(4) ]

\* requests with a longer user-agent: 1500 bytes (segments of 600, 600, 300) and
\* 1202 bytes (600, 600, 2: the final blank line straddles two segments)
Devs ==
  { DevMain, [DevMain EXCEPT !.userAgent = Text(1193)],
    [DevMain EXCEPT !.userAgent = Text(895)] }

(***************************************************************************)
(* Endpoints                                                               *)
(***************************************************************************)
ServerIp == Addr(104, 18, 32, 47)

ClientIp == Addr(10, 0, 0, 2)

Frame(bytes, from, msg, idx, last) ==
  [bytes |-> bytes, tag |-> [from |-> from, msg |-> msg, idx |-> idx, last |-> last]]

\* the wrapping with PSH left out of the flags
EncapsulateNoPsh(srcIp, dstIp, srcPort, dstPort, seq, ack, id, fin, pl) ==
  LET tcpHdr == TCPPack(TCPHeader([TCPDefaults EXCEPT
                    !.srcPort = srcPort, !.dstPort = dstPort, !.seq = seq, !.ack = ack,
                    !.flags = Flags(IF fin THEN {"ack", "fin"} ELSE {"ack"})]),
                  pl)
      tcpPacket == cat(tcpHdr, pl)
      ipHdr == IPv4Pack(IPv4Header([IPv4Defaults EXCEPT
                    !.src = srcIp, !.dst = dstIp, !.id = id, !.df = TRUE, !.mf = FALSE,
                    !.ttl = 64, !.protocol = 6]),
                  tcpPacket)
  IN  cat(ipHdr, tcpPacket)

\* one segment wrapped as both senders wrap it: TCP header, then IPv4 header
Encapsulate(srcIp, dstIp, srcPort, dstPort, seq, ack, id, fin, pl) ==
  LET tcpHdr == TCPPack(TCPHeader([TCPDefaults EXCEPT
                    !.srcPort = srcPort, !.dstPort = dstPort, !.seq = seq, !.ack = ack,
                    !.flags = Flags(IF fin THEN {"ack", "psh", "fin"} ELSE {"ack", "psh"})]),
                  pl)
      tcpPacket == cat(tcpHdr, pl)
      ipHdr == IPv4Pack(IPv4Header([IPv4Defaults EXCEPT
                    !.src = srcIp, !.dst = dstIp, !.id = id, !.df = TRUE, !.mf = FALSE,
                    !.ttl = 64, !.protocol = 6]),
                  tcpPacket)
  IN  cat(ipHdr, tcpPacket)

\* Client.send(devtoolsH2, dstHostIp, dstPort): the frames, in segment order;
\* seq stays 20000 and ack 10000 for every segment, id is 0xA000 + i
ClientFrames(dev, dstHostIp, dstPort, msg) ==
  LET segments == segment(toBytes(h2ToHttp11(dev)), 600)
  IN  [ i \in 1..Len(segments) |->
          Frame(Encapsulate(client.ip, dstHostIp, client.port, dstPort,
                            Wide(20000), Wide(10000), 40960 + (i - 1),
                            i = Len(segments), segments[i]),
                "client", msg, i - 1, i = Len(segments)) ]

\* the response framed with the request's addressing kept as it came
ServerFramesUnswapped(httpText, dstIp, dstPort, msg) ==
  LET segments == segment(toBytes(httpText), 700)
  IN  [ i \in 1..Len(segments) |->
          Frame(Encapsulate(dstIp, server.ip, dstPort, server.port,
                            Wide(50000), Wide(20000), 45056 + (i - 1),
                            i = Len(segments), segments[i]),
                "server", msg, i - 1, i = Len(segments)) ]

\* Server.sendResponse(httpText, dstIp, dstPort): the frames, in segment
\* order; seq stays 50000 and ack 20000, id is 0xB000 + i
ServerFrames(httpText, dstIp, dstPort, msg) ==
  LET segments == segment(toBytes(httpText), 700)
  IN  [ i \in 1..Len(segments) |->
          Frame(Encapsulate(server.ip, dstIp, server.port, dstPort,
                            Wide(50000), Wide(20000), 45056 + (i - 1),
                            i = Len(segments), segments[i]),
                "server", msg, i - 1, i = Len(segments)) ]

\* the delays handed out in reverse: the last frame first
TxTimersReversed(frames, owner, firstMs) ==
  { Timer(nextTid + (i - 1), now + 1000 * (firstMs + (Len(frames) - i)), "tx", owner,
          NoLink, frames[i]) : i \in 1..Len(frames) }

\* the setTimeout calls of one forEach over `frames`: frame i after
\* first + i milliseconds, each calling the owner's link
TxTimers(frames, owner, firstMs) ==
  { Timer(nextTid + (i - 1), now + 1000 * (firstMs + (i - 1)), "tx", owner, NoLink,
          frames[i]) : i \in 1..Len(frames) }

\* an onFrame that empties the buffer once the request is complete
ServerOnFrameClearing(frame, rest) ==
  LET f        == ParseFrame(frame.bytes)
      chunks   == Append(server.reassembly, f.payload)
      text     == safeDecode(concat(chunks))
      complete == Includes(text, CRLF \o CRLF)
      frames   == ServerFrames(buildHttpResponse, f.ip.src, f.tcp.srcPort,
                               Len(server.requests))
  IN  /\ server' = [server EXCEPT
           !.reassembly = IF complete THEN <<>> ELSE chunks,
           !.tags = Append(@, frame.tag),
           !.requests = IF complete
                        THEN Append(@, [req |-> parseHttpRequest(text),
                                        tags |-> Append(server.tags, frame.tag),
                                        dstIp |-> f.ip.src, dstPort |-> f.tcp.srcPort])
                        ELSE @]
      /\ timers' = IF complete THEN rest \cup TxTimers(frames, "server", 1) ELSE rest
      /\ nextTid' = IF complete THEN nextTid + Len(frames) ELSE nextTid
      /\ UNCHANGED client

\* Server.onFrame(bytes) run from a delivery, the other timers being `rest`
ServerOnFrame(frame, rest) ==
  LET f        == ParseFrame(frame.bytes)
      chunks   == Append(server.reassembly, f.payload)
      text     == safeDecode(concat(chunks))
      complete == Includes(text, CRLF \o CRLF)
      frames   == ServerFrames(buildHttpResponse, f.ip.src, f.tcp.srcPort,
                               Len(server.requests))
  IN  /\ server' = [server EXCEPT
           !.reassembly = chunks,
           !.tags = Append(@, frame.tag),
           !.requests = IF complete
                        THEN Append(@, [req |-> parseHttpRequest(text),
                                        tags |-> Append(server.tags, frame.tag),
                                        dstIp |-> f.ip.src, dstPort |-> f.tcp.srcPort])
                        ELSE @]
      /\ timers' = IF complete THEN rest \cup TxTimers(frames, "server", 1) ELSE rest
      /\ nextTid' = IF complete THEN nextTid + Len(frames) ELSE nextTid
      /\ UNCHANGED client

\* Client.onFrame(bytes) run from a delivery
ClientOnFrame(frame, rest) ==
  LET f        == ParseFrame(frame.bytes)
      chunks   == Append(client.inbox, f.payload)
      text     == safeDecode(concat(chunks))
      complete == Includes(text, CRLF \o CRLF)
  IN  /\ client' = [client EXCEPT
           !.inbox = chunks,
           !.tags = Append(@, frame.tag),
           !.responses = IF complete
                         THEN Append(@, [tags |-> Append(client.tags, frame.tag)])
                         ELSE @]
      /\ timers' = rest
      /\ UNCHANGED <<server, nextTid>>

(***************************************************************************)
(* Construction (main) and the event loop                                  *)
(***************************************************************************)
\* new Server({ip, port, link}) / new Client({ip, port, link}); linkBack is
\* undefined ("none") until attachReturn
NewServer(l) ==
  [ ip |-> ServerIp, port |-> 443, link |-> l, linkBack |-> "none",
    reassembly |-> <<>>, tags |-> <<>>, requests |-> <<>> ]

NewClient(l) ==
  [ ip |-> ClientIp, port |-> 53000, link |-> l, inbox |-> <<>>, tags |-> <<>>,
    responses |-> <<>>, sends |-> 0, msgs |-> <<>> ]

\* The options both links are built with
SysLinkOptions ==
  { [LinkDefaults EXCEPT !.lossRate = lr, !.jitterUs = j] : lr \in {0, 50}, j \in {20, 2000} }

\* "main": the construction sequence of main():
\*    server = new Server({link: c2s}); server.attachReturn(s2c);
\*    client = new Client({link: s2c})
\* "shared": the client is built on the c2s link first and the server on the
\* same link after it (the later connect replaces the receiver), and the
\* return link is connected to the client's onFrame:
\*    client = new Client({link: c2s}); server = new Server({link: c2s});
\*    server.attachReturn(s2c); s2c.connect(b => client.onFrame(b))
Init ==
  /\ call = NoCall /\ result = NoResult
  /\ timers = {} /\ now = 0 /\ nextTid = 0
  /\ sent = <<>> /\ delivered = <<>> /\ lastCall = NoCall
  /\ \E opts \in SysLinkOptions :
       LET fresh == [l \in LinkIds |-> NetworkLink(opts)] IN
       \/ /\ wiring = "main"
          /\ server = [NewServer("c2s") EXCEPT !.linkBack = "s2c"]
          /\ client = NewClient("s2c")
          /\ links = [fresh EXCEPT !["c2s"] = connect(@, "server"),
                                   !["s2c"] = connect(@, "client")]
       \/ /\ wiring = "shared"
          /\ client = NewClient("c2s")
          /\ server = [NewServer("c2s") EXCEPT !.linkBack = "s2c"]
          /\ links = [fresh EXCEPT !["c2s"] = connect(connect(@, "client"), "server"),
                                   !["s2c"] = connect(@, "client")]

\* client.send(devtoolsH2, '104.18.32.47', 443): every frame is built and its
\* setTimeout(() => this.link.send(frame), i) registered, in segment order
ClientSend ==
  /\ client.sends < MaxClientSends
  /\ \E dev \in Devs :
       LET frames == ClientFrames(dev, ServerIp, 443, client.sends)
       IN  /\ timers' = timers \cup TxTimers(frames, "client", 0)
           /\ nextTid' = nextTid + Len(frames)
           /\ client' = [client EXCEPT !.sends = @ + 1, !.msgs = Append(@, dev)]
           /\ lastCall' = [op |-> "Client.send", dev |-> dev, outcome |-> "returned"]
  /\ UNCHANGED <<call, result, links, now, server, wiring, sent, delivered>>

\* the link an endpoint's send callback uses, read when the callback runs:
\* this.link for the client, this.linkBack for the server
TxLink(owner) == IF owner = "client" THEN client.link ELSE server.linkBack

\* A callback () => link.send(frame) registered by an endpoint runs
FireTx ==
  /\ timers # {}
  /\ LET t == Earliest(timers) IN
     /\ t.kind = "tx"
     /\ now' = Max(now, t.at)
     /\ IF TxLink(t.owner) = "none"
        THEN \* this.linkBack is undefined: the callback throws a TypeError
             /\ timers' = timers \ {t}
             /\ lastCall' = [op |-> "timer", outcome |-> "TypeError"]
             /\ UNCHANGED <<nextTid, sent>>
        ELSE /\ LinkSend(TxLink(t.owner), t.frame, timers \ {t})
             /\ lastCall' = [op |-> "timer", outcome |-> "returned"]
  /\ UNCHANGED <<call, result, links, server, client, wiring, delivered>>

\* A link's callback () => this.rx && this.rx(frameBytes) runs: the receiver
\* is the one registered when the callback runs
FireDeliver ==
  /\ timers # {}
  /\ LET t  == Earliest(timers)
         rx == links[t.link].rx
     IN
     /\ t.kind = "deliver"
     /\ now' = Max(now, t.at)
     /\ delivered' = IF rx = "none" THEN delivered
                     ELSE Append(delivered, [link |-> t.link, tag |-> t.frame.tag,
                                             bytes |-> t.frame.bytes,
                                             to |-> rx])
     /\ IF rx = "server" THEN ServerOnFrame(t.frame, timers \ {t})
        ELSE IF rx = "client" THEN ClientOnFrame(t.frame, timers \ {t})
        ELSE /\ timers' = timers \ {t}
             /\ UNCHANGED <<server, client, nextTid>>
     /\ lastCall' = [op |-> "timer", outcome |-> "returned"]
  /\ UNCHANGED <<call, result, links, wiring, sent>>

Next == ClientSend \/ FireTx \/ FireDeliver

Spec == Init /\ [][Next]_vars

(***************************************************************************)
(* One link driven directly: connect and send called by a harness          *)
(***************************************************************************)
LinkOptions ==
  { [LinkDefaults EXCEPT !.medium = m, !.rateKbps = r, !.rx = x] :
      m \in {"twisted-pair", "localtalk", "thicknet", ""},
      r \in {1000000, 0, 0 - 1000},
      x \in {"none", "A"} }
  \cup
  { [LinkDefaults EXCEPT !.medium = m, !.lossRate = lr, !.fullDuplex = fd, !.jitterUs = j] :
      m \in {"twisted-pair"}, lr \in {0, 50, 100}, fd \in BOOLEAN, j \in {2000} }

LinkFrames == {[i \in 1..60 |-> 2]}

InitLink ==
  /\ call = NoCall /\ result = NoResult
  /\ timers = {} /\ now = 0 /\ nextTid = 0
  /\ server = <<>> /\ client = <<>> /\ wiring = "link"
  /\ sent = <<>> /\ delivered = <<>> /\ lastCall = NoCall
  /\ \E opts \in LinkOptions :
       links = [l \in LinkIds |-> IF l = "c2s" THEN NetworkLink(opts)
                                  ELSE NetworkLink(LinkDefaults)]

\* link.connect(receiver)
Connect ==
  /\ \E r \in {"A", "B", "notAFunction"} :
       /\ links' = [links EXCEPT !["c2s"] = connect(@, r)]
       /\ lastCall' = [op |-> "connect", receiver |-> r,
                       outcome |-> ConnectOutcome(links["c2s"], r)]
  /\ UNCHANGED <<call, result, timers, now, nextTid, server, client, wiring, sent,
                 delivered>>

\* link.send(frameBytes)
Send ==
  /\ Len(sent) < MaxLinkSends
  /\ \E b \in LinkFrames :
       LinkSend("c2s", Frame(b, "harness", 0, Len(sent), FALSE), timers)
  /\ lastCall' = [op |-> "send", outcome |-> "returned", after |-> lastCall.outcome]
  /\ UNCHANGED <<call, result, links, now, server, client, wiring, delivered>>

NextLink == Connect \/ Send \/ FireDeliver

SpecLink == InitLink /\ [][NextLink]_vars

\* the event loop runs every callback that is due
FairSpecLink == SpecLink /\ WF_vars(FireDeliver)

(***************************************************************************)
(* Properties of the exchange (Spec)                                       *)
(***************************************************************************)
\* the bytes Client.send segmented for its k-th call
MessageBytes(k) == toBytes(h2ToHttp11(client.msgs[k]))

\* the server has appended exactly the frames of the client's first message,
\* which has three segments, each once
AllThreeAppended ==
  /\ client.sends >= 1
  /\ Len(segment(MessageBytes(1), 600)) = 3
  /\ links[client.link].lossRate = 0
  /\ Len(server.tags) = 3
  /\ \A i \in 0..2 : \E j \in 1..3 :
       server.tags[j].from = "client" /\ server.tags[j].msg = 0 /\ server.tags[j].idx = i

\* C2: a three-segment client message sent over a link with loss 0: once all
\* three payloads have been appended, the server's reassembly buffer holds the
\* original message bytes, whatever the order of the three arrivals.
C2_ReassemblyAnyOrder ==
  AllThreeAppended => concat(server.reassembly) = MessageBytes(1)

\* no callback is pending: the run of one Client.send is over
Quiescent == timers = {}

\* the server's onFrame has detected a complete request
RequestDetected == server.requests # <<>>

\* the client's onFrame has detected a complete message that holds frames sent
\* by the server
ResponseDetected ==
  \E i \in 1..Len(client.responses) :
    \E j \in 1..Len(client.responses[i].tags) :
      client.responses[i].tags[j].from = "server"

\* C3: with loss 0 on both links, one call to Client.send leads to the
\* server's handler detecting the complete request and then to the client's
\* handler detecting the complete response sent by the server.  Stated on the
\* finished run: when the one send has been made and no callback is left to
\* run, both detections have happened.
C3_ExchangeCompletes ==
  ( /\ client.sends = 1
    /\ \A l \in LinkIds : links[l].lossRate = 0
    /\ Quiescent )
  => (RequestDetected /\ ResponseDetected)

(***************************************************************************)
(* Properties of the link (SpecLink, FairSpecLink)                         *)
(***************************************************************************)
\* the k-th frame passed to send has been handed to a receiver
WasDelivered(k) ==
  /\ Len(sent) >= k
  /\ \E i \in 1..Len(delivered) : delivered[i].tag = sent[k].tag

\* C4: on a connected link with loss probability 0 every frame passed to send
\* is eventually delivered to the receiver, and with loss probability 1 no
\* frame passed to send is ever delivered.
C4_LossZeroDeliversLossOneDrops ==
  /\ \A k \in 1..MaxLinkSends :
       ( /\ links["c2s"].lossRate = 0
         /\ Len(sent) >= k
         /\ sent[k].outcome # "noReceiver" ) ~> WasDelivered(k)
  /\ [](links["c2s"].lossRate = 100 => delivered = <<>>)

\* every frame passed to send on the connected loss-free link has arrived
C4_Witness ==
  /\ links["c2s"].lossRate = 0
  /\ Len(sent) >= 2
  /\ \A k \in 1..Len(sent) : sent[k].outcome # "noReceiver" /\ WasDelivered(k)

\* the configuration connect rejects
BadConfig(link) == link.medium \notin ACCEPTED_MEDIA \/ link.rateKbps <= 0

\* C10: connect (given a function) fails with a configuration error when the
\* medium is not one of the seven supported media or the rate is <= 0; a
\* failed connect registers no receiver, the link stays unconnected, and a
\* send on it is dropped.
C10_ConnectRejectsBadConfig ==
  [][ /\ ( /\ lastCall'.op = "connect"
           /\ lastCall'.receiver \in Receivers
           /\ BadConfig(links["c2s"]) )
         => lastCall'.outcome = "Error"
      /\ ( lastCall'.op = "connect" /\ lastCall'.outcome # "ok" )
         => links'["c2s"].rx = links["c2s"].rx
      /\ ( BadConfig(links["c2s"]) /\ links["c2s"].rx = "none" )
         => links'["c2s"].rx = "none"
      /\ ( lastCall'.op = "send" /\ links["c2s"].rx = "none" )
         => ( /\ timers' = timers
              /\ delivered' = delivered
              /\ sent'[Len(sent')].outcome = "noReceiver" )
    ]_vars

\* a send dropped on a link whose connect has just failed on a rate <= 0
C10_Witness ==
  /\ links["c2s"].medium \in ACCEPTED_MEDIA
  /\ links["c2s"].rateKbps <= 0
  /\ links["c2s"].rx = "none"
  /\ lastCall.op = "send"
  /\ lastCall.after = "Error"
  /\ sent[Len(sent)].outcome = "noReceiver"

\* C11: the link's only state change is Unconnected -> Connected: after a
\* successful connect the link has the receiver registered, and no connect or
\* send (nor any delivery) returns a link that has a receiver to having none.
C11_ConnectedStaysConnected ==
  [][ /\ ( lastCall'.op = "connect" /\ lastCall'.outcome = "ok" )
         => links'["c2s"].rx = lastCall'.receiver
      /\ links["c2s"].rx # "none" => links'["c2s"].rx # "none"
    ]_vars

\* a connected link after a failed re-connect and a send, still connected
C11_Witness ==
  /\ links["c2s"].rx \in {"A", "B"}
  /\ lastCall.op = "send"
  /\ lastCall.after = "TypeError"
  /\ sent[Len(sent)].outcome = "scheduled"

\* C12: a frame passed to send while the link has no registered receiver is
\* dropped: send returns normally, schedules nothing, and that frame is never
\* delivered, not even after a later successful connect.
C12_UnconnectedSendDropped ==
  /\ [][ ( lastCall'.op = "send" /\ links["c2s"].rx = "none" )
         => ( /\ lastCall'.outcome = "returned"
              /\ timers' = timers
              /\ nextTid' = nextTid
              /\ sent'[Len(sent')].outcome = "noReceiver" )
       ]_vars
  /\ [](\A k \in 1..Len(sent) : sent[k].outcome = "noReceiver" => ~WasDelivered(k))

\* a frame dropped for want of a receiver, then a connect, then a later frame
\* delivered while the first is still not
C12_Witness ==
  /\ Len(sent) >= 2
  /\ sent[1].outcome = "noReceiver"
  /\ ~WasDelivered(1)
  /\ WasDelivered(2)
  /\ timers = {}

\* the number of elements of a sequence that satisfy a test on their outcome
RECURSIVE CountOutcome(_, _)
CountOutcome(log, outcome) ==
  IF log = <<>> THEN 0
  ELSE (IF log[1].outcome = outcome THEN 1 ELSE 0) + CountOutcome(Tail(log), outcome)

\* C13: every send on a connected link that the loss roll does not drop
\* schedules exactly one delivery; each submitted frame is delivered at most
\* once, with its bytes unmodified, and the deliveries on the link never
\* outnumber the sends on it.
C13_OneDeliveryPerSend ==
  /\ Cardinality(timers) + Len(delivered) = CountOutcome(sent, "scheduled")
  /\ \A i, j \in 1..Len(delivered) : delivered[i].tag = delivered[j].tag => i = j
  /\ \A i \in 1..Len(delivered) :
       \E k \in 1..Len(sent) : /\ sent[k].tag = delivered[i].tag
                               /\ sent[k].outcome = "scheduled"
                               /\ sent[k].bytes = delivered[i].bytes
                               /\ sent[k].link = delivered[i].link
  /\ Len(delivered) <= Len(sent)

\* one frame lost by the roll, every other one delivered, nothing left in flight
C13_Witness ==
  /\ CountOutcome(sent, "lost") >= 1
  /\ Len(delivered) >= 1
  /\ Len(delivered) = CountOutcome(sent, "scheduled")
  /\ timers = {}

\* C14: two frames in flight on the same link at once can be delivered in the
\* opposite order to their submission.  The delivery callbacks run in the
\* order of their sampled delays, not of submission: a frame is delivered only
\* when no frame in flight is due earlier; the witness is the execution in
\* which the later-submitted frame arrives first.
C14_DeliveryFollowsDelay ==
  [][ delivered' # delivered
      => \A t \in timers \ timers' : \A u \in timers : t.at <= u.at ]_vars

\* both frames were in flight together and the second arrived first
C14_Witness ==
  /\ Len(sent) >= 2
  /\ Len(delivered) >= 2
  /\ delivered[1].tag = sent[2].tag
  /\ delivered[2].tag = sent[1].tag
  /\ now > 0

(***************************************************************************)
(* The endpoints driven directly: frames handed to onFrame by a harness,   *)
(* as a link's delivery callback hands them                                *)
(***************************************************************************)
PeerIp == Addr(192, 168, 1, 9)

\* the frames another Client (ip, port) puts on the wire for `dev`; seq is
\* the sequence number its segments carry
PeerFrames(dev, srcIp, srcPort, seq, msg) ==
  LET segments == segment(toBytes(h2ToHttp11(dev)), 600)
  IN  { Frame(Encapsulate(srcIp, ServerIp, srcPort, 443, seq, Wide(10000),
                          40960 + (i - 1), i = Len(segments), segments[i]),
              "peer", msg, i - 1, i = Len(segments)) : i \in 1..Len(segments) }

\* frames too short for the two fixed headers: one zero byte and a blank
\* line; a 20-byte IPv4 header followed by 19 bytes
ShortFrames ==
  { Frame(<<0, 13, 10, 13, 10>>, "short", 0, 0, FALSE),
    Frame(<<69>> \o [i \in 1..38 |-> 0], "short", 1, 0, FALSE) }

\* a one-segment request from a peer and a three-segment request from the
\* client's address
RequestFrames ==
  PeerFrames(DevMain, PeerIp, 4000, Wide(7), 0)
  \cup PeerFrames([DevMain EXCEPT !.userAgent = Text(1193)], ClientIp, 53000,
                  Wide(20000), 1)

\* what the harness hands to an endpoint: the server gets requests and short
\* frames, the client short frames
ArrivalFrames(e) ==
  IF e = "server" THEN RequestFrames \cup ShortFrames ELSE ShortFrames

\* the calls of onFrame made by the harness so far
RECURSIVE Arrivals(_)
Arrivals(log) ==
  IF log = <<>> THEN 0
  ELSE (IF log[1].link = "direct" THEN 1 ELSE 0) + Arrivals(Tail(log))

\* main()'s construction with or without server.attachReturn(s2c)
InitEndpoints ==
  /\ call = NoCall /\ result = NoResult
  /\ timers = {} /\ now = 0 /\ nextTid = 0
  /\ sent = <<>> /\ delivered = <<>> /\ lastCall = NoCall
  /\ LET fresh == [l \in LinkIds |-> NetworkLink(LinkDefaults)] IN
     /\ links = [fresh EXCEPT !["c2s"] = connect(@, "server"),
                              !["s2c"] = connect(@, "client")]
     /\ client = NewClient("s2c")
     /\ \/ /\ wiring = "main"
           /\ server = [NewServer("c2s") EXCEPT !.linkBack = "s2c"]
        \/ /\ wiring = "noReturn"
           /\ server = NewServer("c2s")

\* endpoint.onFrame(bytes)
Arrive ==
  /\ Arrivals(delivered) < MaxArrivals
  /\ \E e \in {"server", "client"} : \E frame \in ArrivalFrames(e) :
       /\ delivered' = Append(delivered, [link |-> "direct", tag |-> frame.tag,
                                          bytes |-> frame.bytes, to |-> e])
       /\ IF e = "server" THEN ServerOnFrame(frame, timers)
                          ELSE ClientOnFrame(frame, timers)
       /\ lastCall' = [op |-> "onFrame", endpoint |-> e, outcome |-> "returned"]
  /\ UNCHANGED <<call, result, links, now, wiring, sent>>

NextEndpoints == Arrive \/ FireTx \/ FireDeliver

SpecEndpoints == InitEndpoints /\ [][NextEndpoints]_vars

(***************************************************************************)
(* The two senders as functions of their arguments: the frames one call of *)
(* Client.send or Server.sendResponse builds                               *)
(***************************************************************************)
\* response texts of one, two and three segments
ResponseTexts ==
  { buildHttpResponse, buildHttpResponse \o Text(489), buildHttpResponse \o Text(1300) }

SenderCalls ==
  { [op |-> "Client.send", dev |-> dev, dstHostIp |-> ip, dstPort |-> port] :
      dev \in Devs, ip \in {ServerIp, PeerIp, Addr(10, 0, 0, 1)}, port \in {443, 80, 8080, 65535} }
  \cup
  { [op |-> "Server.sendResponse", httpText |-> text, dstIp |-> ip, dstPort |-> port] :
      text \in ResponseTexts, ip \in {ClientIp, PeerIp, Addr(10, 0, 0, 1)},
      port \in {53000, 4000, 80, 65535} }

InitSenders ==
  /\ timers = {} /\ now = 0 /\ nextTid = 0
  /\ sent = <<>> /\ delivered = <<>> /\ lastCall = NoCall
  /\ wiring = "main"
  /\ links = [l \in LinkIds |->
                connect(NetworkLink(LinkDefaults), IF l = "c2s" THEN "server" ELSE "client")]
  /\ server = [NewServer("c2s") EXCEPT !.linkBack = "s2c"]
  /\ client = NewClient("s2c")
  /\ call \in SenderCalls
  /\ result = NoResult

\* Client.send(devtoolsH2, dstHostIp, dstPort): the frames its loop builds
DoClientSend ==
  /\ call.op = "Client.send" /\ result = NoResult
  /\ result' = [stage |-> "framed", mss |-> 600,
                bytes |-> toBytes(h2ToHttp11(call.dev)),
                frames |-> ClientFrames(call.dev, call.dstHostIp, call.dstPort, 0)]
  /\ UNCHANGED <<call, netVars>>

\* Server.sendResponse(httpText, dstIp, dstPort): the frames its loop builds
DoSendResponse ==
  /\ call.op = "Server.sendResponse" /\ result = NoResult
  /\ result' = [stage |-> "framed", mss |-> 700,
                bytes |-> toBytes(call.httpText),
                frames |-> ServerFrames(call.httpText, call.dstIp, call.dstPort, 0)]
  /\ UNCHANGED <<call, netVars>>

NextSenders == DoClientSend \/ DoSendResponse

SpecSenders == InitSenders /\ [][NextSenders]_vars

IsFramed == result.stage = "framed"

\* a frame's TCP sequence number (the IPv4 header has no options: 20 bytes)
WireSeq(bytes) ==
  [hi |-> At(bytes, 24) * 256 + At(bytes, 25), lo |-> At(bytes, 26) * 256 + At(bytes, 27)]

\* a frame's TCP flags byte
WireFlags(bytes) == At(bytes, 33)

\* a frame's payload length
WirePayloadLen(bytes) == Len(bytes) - 40

\* C15: within one outgoing message the sequence number of segment i+1 is the
\* sequence number of segment i plus the byte length of chunk i, modulo 2^32.
C15_SeqAdvancesByChunk ==
  IsFramed =>
    \A i \in 1..(Len(result.frames) - 1) :
      WireSeq(result.frames[i + 1].bytes)
        = Uint32(WideAdd(WireSeq(result.frames[i].bytes),
                         WirePayloadLen(result.frames[i].bytes)))

\* C16: within one outgoing message every segment has PSH and ACK set, the
\* last segment has FIN set and no other segment has.
C16_PshAckEveryFinLast ==
  IsFramed =>
    /\ Len(result.frames) = Ceil(Len(result.bytes), result.mss)
    /\ \A i \in 1..Len(result.frames) :
         LET flags == WireFlags(result.frames[i].bytes) IN
         /\ Bit(flags, 4) = 1
         /\ Bit(flags, 3) = 1
         /\ (Bit(flags, 0) = 1) <=> (i = Len(result.frames))

\* a message of three segments has been framed
C16_Witness ==
  /\ IsFramed
  /\ Len(result.frames) = 3
  /\ WireFlags(result.frames[1].bytes) = 24
  /\ WireFlags(result.frames[3].bytes) = 25

(***************************************************************************)
(* Properties of the endpoints (SpecEndpoints)                             *)
(***************************************************************************)
\* fewer than 20 bytes of IPv4 header, or fewer than 20 bytes after the
\* header length the first byte declares
IsShort(bytes) ==
  \/ Len(bytes) < 20
  \/ Len(bytes) - 4 * BitAnd(At(bytes, 0), 15) < 20

\* C17: a frame too short to hold the minimum fixed headers, handed to an
\* endpoint's arrival handler, is discarded: the reassembly buffer keeps its
\* bytes and neither completion processing nor a response is triggered.
C17_ShortFrameDiscarded ==
  [][ ( /\ lastCall'.op = "onFrame"
        /\ IsShort(delivered'[Len(delivered')].bytes) )
      => ( /\ concat(server'.reassembly) = concat(server.reassembly)
           /\ concat(client'.inbox) = concat(client.inbox)
           /\ server'.requests = server.requests
           /\ client'.responses = client.responses
           /\ timers' = timers )
    ]_vars

\* the frame whose arrival triggered a completion, given the frames the
\* buffer held at that moment, belongs to a message whose final frame is
\* among them
FinalFramePresent(tags) ==
  LET trigger == tags[Len(tags)] IN
  trigger.from \in {"peer", "client", "server"}
    => \E j \in 1..Len(tags) : /\ tags[j].from = trigger.from
                               /\ tags[j].msg = trigger.msg
                               /\ tags[j].last

\* C18: if the final frame of a message is lost, the receiving endpoint's
\* completion step is never triggered for that message, whatever the other
\* frames are and in whatever order they arrive: a completion triggered by a
\* frame of a message happens only when that message's final frame has
\* arrived.
C18_NoCompletionWithoutFinalFrame ==
  /\ \A i \in 1..Len(server.requests) : FinalFramePresent(server.requests[i].tags)
  /\ \A i \in 1..Len(client.responses) : FinalFramePresent(client.responses[i].tags)

\* C19: no frame-level failure (a send with no receiver, a frame dropped by
\* the loss roll, a malformed frame arriving, a response sent with no return
\* link attached) raises an exception: every send, arrival handler and timer
\* callback returns.
C19_NoFrameFailureRaises ==
  lastCall.op \in {"send", "onFrame", "timer"} => lastCall.outcome = "returned"

\* the bytes of the frame that triggered the server's k-th completion
TriggerBytes(k) ==
  LET tags == server.requests[k].tags
      d == CHOOSE i \in 1..Len(delivered) :
             delivered[i].to = "server" /\ delivered[i].tag = tags[Len(tags)]
  IN  delivered[d].bytes

\* the frames the server has built so far: waiting for their timer, or
\* passed to the return link
ServerBuilt ==
  { t.frame : t \in { u \in timers : u.kind = "tx" /\ u.owner = "server" } }
  \cup { [bytes |-> sent[k].bytes, tag |-> sent[k].tag] :
           k \in { j \in 1..Len(sent) : sent[j].tag.from = "server" } }

\* C20: every frame of a server response carries swapped addressing relative
\* to the request: network source = the server's address, destination = the
\* request's source address, source port = the server's port, destination
\* port = the request's source port; and its sequence number is the server's
\* own initial value (50000), whatever the request's sequence numbers.
C20_ResponseSwapsAddressing ==
  \A f \in ServerBuilt :
    LET req == TriggerBytes(f.tag.msg + 1) IN
    ~IsShort(req) =>
      /\ SubSeq(f.bytes, 13, 16) = <<104, 18, 32, 47>>
      /\ SubSeq(f.bytes, 17, 20) = SubSeq(req, 13, 16)
      /\ SubSeq(f.bytes, 21, 22) = <<1, 187>>
      /\ SubSeq(f.bytes, 23, 24) = SubSeq(req, 21, 22)
      /\ WireSeq(f.bytes) = Wide(50000)
      /\ WireSeq(req) \in {Wide(7), Wide(20000)}

\* a response to the peer's request (sequence number 7) has been delivered
\* to the return link's receiver
C20_Witness ==
  \E i \in 1..Len(delivered) :
    /\ delivered[i].tag.from = "server"
    /\ SubSeq(delivered[i].bytes, 17, 20) = <<192, 168, 1, 9>>
    /\ SubSeq(delivered[i].bytes, 23, 24) = <<15, 160>>
    /\ WireSeq(TriggerBytes(delivered[i].tag.msg + 1)) = Wide(7)

(***************************************************************************)
(* The two senders driven directly over main()'s links: Client.send and    *)
(* Server.sendResponse called by a harness, then the timer callbacks       *)
(***************************************************************************)
\* links without jitter, so that the timers differ by the senders' delays
\* only; one that loses nothing and one that loses everything
SendLinkOptions ==
  { [LinkDefaults EXCEPT !.jitterUs = 0, !.lossRate = lr] : lr \in {0, 100} }

InitSend ==
  /\ call = NoCall /\ result = NoResult
  /\ timers = {} /\ now = 0 /\ nextTid = 0
  /\ sent = <<>> /\ delivered = <<>> /\ lastCall = NoCall
  /\ wiring = "main"
  /\ \E opts \in SendLinkOptions :
       links = [l \in LinkIds |->
                  connect(NetworkLink(opts), IF l = "c2s" THEN "server" ELSE "client")]
  /\ server = [NewServer("c2s") EXCEPT !.linkBack = "s2c"]
  /\ client = NewClient("s2c")

\* the server has built no frame yet
NoResponseBuilt ==
  /\ \A t \in timers : t.frame.tag.from # "server"
  /\ \A k \in 1..Len(sent) : sent[k].tag.from # "server"

\* server.sendResponse(httpText, dstIp, dstPort), called once
CallSendResponse ==
  /\ NoResponseBuilt
  /\ \E text \in ResponseTexts :
       LET frames == ServerFrames(text, ClientIp, 53000, 0)
       IN  /\ timers' = timers \cup TxTimers(frames, "server", 1)
           /\ nextTid' = nextTid + Len(frames)
           /\ lastCall' = [op |-> "Server.sendResponse", outcome |-> "returned"]
  /\ UNCHANGED <<call, result, links, now, server, client, wiring, sent, delivered>>

NextSend == ClientSend \/ CallSendResponse \/ FireTx \/ FireDeliver

SpecSend == InitSend /\ [][NextSend]_vars

\* C21: within one outgoing message the frames are handed to the link in
\* strict segment order: the link's send for segment i is invoked before the
\* link's send for segment j, for all i < j.
C21_SubmittedInSegmentOrder ==
  \A j, k \in 1..Len(sent) :
    ( /\ j < k
      /\ sent[j].tag.from = sent[k].tag.from
      /\ sent[j].tag.msg = sent[k].tag.msg )
    => sent[j].tag.idx < sent[k].tag.idx

\* the three segments of a request and the three of a response have all been
\* handed to the link
C21_Witness ==
  /\ \E k \in 1..Len(sent) : sent[k].tag.from = "client" /\ sent[k].tag.idx = 2
  /\ \E k \in 1..Len(sent) : sent[k].tag.from = "server" /\ sent[k].tag.idx = 2

(***************************************************************************)
(* Identifiers, receivers and reassembly                                   *)
(***************************************************************************)
\* the identification field of a packed frame: bytes 4..5
WireId(bytes) == At(bytes, 4) * 256 + At(bytes, 5)

\* C22: every frame an endpoint sends carries a fresh network-layer
\* identifier: no two frames built by the server, in the same response or in
\* different responses, have the same 16-bit identification.
C22_FreshIdPerFrame ==
  \A f, g \in ServerBuilt :
    f.tag # g.tag => WireId(f.bytes) # WireId(g.bytes)

\* a transport header has been packed
IsTCPPacked == call.op = "tcp" /\ result.stage \in {"packed", "parsed"}

\* C23: encoding a transport header without options yields exactly 20 bytes
\* (the payload is not part of them) in which bytes 0-1 are the source port
\* and bytes 2-3 the destination port, big-endian, and byte 13 has the ACK
\* bit (0x10) set exactly when the ack flag is set and the PSH bit (0x08)
\* exactly when the psh flag is set.
C23_PackNoOptions ==
  (IsTCPPacked /\ call.fields.optionsBytes = <<>>) =>
    /\ Len(result.bytes) = 20
    /\ At(result.bytes, 0) * 256 + At(result.bytes, 1) = call.fields.srcPort
    /\ At(result.bytes, 2) * 256 + At(result.bytes, 3) = call.fields.dstPort
    /\ (Bit(At(result.bytes, 13), 4) = 1) <=> (call.fields.flags.ack = 1)
    /\ (Bit(At(result.bytes, 13), 3) = 1) <=> (call.fields.flags.psh = 1)

\* the header of the spec's example: 53000 -> 443 with ack and psh alone
C23_Witness ==
  /\ IsTCPPacked /\ call.fields.optionsBytes = <<>>
  /\ call.fields.flags = Flags({"ack", "psh"})
  /\ SubSeq(result.bytes, 1, 4) = <<207, 8, 1, 187>>
  /\ At(result.bytes, 13) = 24

\* C24: no frame is ever scheduled for delivery on a link whose medium is
\* outside the supported set or whose rate is <= 0: a link that can deliver
\* frames has passed the medium and rate validation.
C24_NothingScheduledOnBadLink ==
  BadConfig(links["c2s"]) =>
    /\ \A t \in timers : ~(t.kind = "deliver" /\ t.link = "c2s")
    /\ \A k \in 1..Len(sent) : sent[k].outcome # "scheduled"
    /\ delivered = <<>>

\* C25: a frame sent by an endpoint is never delivered to that endpoint's own
\* arrival handler: every frame of Client.send is delivered, if at all, to
\* the server's onFrame, and every frame of Server.sendResponse to the
\* client's onFrame.
C25_NeverDeliveredToSender ==
  \A i \in 1..Len(delivered) :
    /\ delivered[i].tag.from = "client" => delivered[i].to = "server"
    /\ delivered[i].tag.from = "server" => delivered[i].to = "client"

\* a frame has been built and read back
IsFrameParsed == call.op = "frame" /\ result.stage = "parsed"

\* C26: for every frame built by the sending pipeline (for every option-bytes
\* length on either header) the payload that onFrame extracts at the offsets
\* the headers declare is exactly the chunk the sender put in; the transport
\* header's packed length is 4*(5 + ceil(optionBytesLength/4)) and equals the
\* offset its decoder reports.
C26_ExtractedPayloadIsChunk ==
  IsFrameParsed =>
    /\ result.parsed.payload = call.payload
    /\ Len(result.tcpHdr) = 4 * (5 + Ceil(Len(call.tcpFields.optionsBytes), 4))
    /\ TCPParse(result.tcpHdr).dataOffsetBytes = Len(result.tcpHdr)

\* the payloads of the frames handed to endpoint e's onFrame so far, in
\* arrival order, each taken at the offsets its headers declare
PayloadsArrivedAt(e) ==
  LET ds == SelectSeq(delivered, LAMBDA d : d.to = e)
  IN  [i \in 1..Len(ds) |-> ParseFrame(ds[i].bytes).payload]

\* C27: after every arrival an endpoint's reassembly buffer equals the
\* concatenation, in arrival order, of the payloads of all frames that
\* endpoint has received so far: each onFrame appends exactly one payload at
\* the end, earlier payloads are never removed, reordered or altered, and
\* nothing but that endpoint's onFrame changes the buffer.
C27_BufferIsArrivedPayloads ==
  /\ server.reassembly = PayloadsArrivedAt("server")
  /\ client.inbox = PayloadsArrivedAt("client")
  /\ \A i \in 1..Len(delivered) :
       ~IsShort(delivered[i].bytes) =>
         ParseFrame(delivered[i].bytes).payload = SliceFrom(delivered[i].bytes, 40)

\* the server has appended two payloads, the first of which completed a
\* request, and the client has appended the response to it
C27_Witness ==
  /\ Len(server.reassembly) = 2
  /\ Len(server.requests) >= 1 /\ Len(server.requests[1].tags) = 1
  /\ Len(client.inbox) >= 1
  /\ Len(client.inbox[1]) = 212

(***************************************************************************)
(* One link reconnected while frames are in flight: the harness notes on   *)
(* each frame's tag the receiver connected when it called send             *)
(***************************************************************************)
InitRewire ==
  /\ call = NoCall /\ result = NoResult
  /\ timers = {} /\ now = 0 /\ nextTid = 0
  /\ server = <<>> /\ client = <<>> /\ wiring = "link"
  /\ sent = <<>> /\ delivered = <<>> /\ lastCall = NoCall
  /\ \E x \in {"none", "A"} :
       links = [l \in LinkIds |-> IF l = "c2s" THEN NetworkLink([LinkDefaults EXCEPT !.rx = x])
                                  ELSE NetworkLink(LinkDefaults)]

\* link.send(frameBytes), the frame tagged with the receiver of the moment
SendNoted ==
  /\ Len(sent) < MaxLinkSends
  /\ \E b \in LinkFrames :
       LinkSend("c2s",
                [bytes |-> b,
                 tag |-> [from |-> "harness", msg |-> 0, idx |-> Len(sent), last |-> FALSE,
                          rx |-> links["c2s"].rx]],
                timers)
  /\ lastCall' = [op |-> "send", outcome |-> "returned", after |-> lastCall.outcome]
  /\ UNCHANGED <<call, result, links, now, server, client, wiring, delivered>>

NextRewire == Connect \/ SendNoted \/ FireDeliver

SpecRewire == InitRewire /\ [][NextRewire]_vars

\* C28: a delivered frame goes to the receiver that was registered on the
\* link when send was called: if connect is called again with a different
\* receiver while the frame is in flight, the frame is still delivered to the
\* receiver registered at send time.
C28_DeliveredToReceiverAtSend ==
  \A i \in 1..Len(delivered) : delivered[i].to = delivered[i].tag.rx

(***************************************************************************)
(* Completion and responses at the server                                  *)
(***************************************************************************)
\* the messages of which at least one frame has reached the server
MessagesArrived ==
  { <<server.tags[j].from, server.tags[j].msg>> : j \in 1..Len(server.tags) }

\* C29: for one request message the server sends at most one response: after
\* the completion delimiter has been detected and a response sent, later
\* arrivals at the server (further segments of the same message, or any other
\* frame) do not trigger another sendResponse.
C29_OneResponsePerRequest ==
  Len(server.requests) <= Cardinality(MessagesArrived)

\* C30: the server parses a request and responds only after every segment of
\* that request has been appended to its reassembly buffer: completion never
\* fires while a segment of the message is missing (a non-final frame lost,
\* or frames out of order), and the text handed to parseHttpRequest is the
\* message the client sent.
C30_CompletionNeedsEverySegment ==
  \A i \in 1..Len(server.requests) :
    LET r    == server.requests[i]
        trig == r.tags[Len(r.tags)]
    IN  trig.from = "client" =>
          LET message == MessageBytes(trig.msg + 1)
              n       == Len(segment(message, 600))
          IN  /\ \A k \in 0..(n - 1) :
                   \E j \in 1..Len(r.tags) :
                     /\ r.tags[j].from = "client"
                     /\ r.tags[j].msg = trig.msg
                     /\ r.tags[j].idx = k
              /\ concat(SubSeq(server.reassembly, 1, Len(r.tags))) = message

====
